---- MODULE Spec2Model ----
(***************************************************************************)
(* Model of src/code/genetic-algorithm.py: the ranker (sort/merge), the    *)
(* evolution engine (evolve), the path generator (individual) and the      *)
(* generational loop of main.                                              *)
(*                                                                         *)
(* The field is modelled on one axis: a Point is its integer coordinate,   *)
(* so the Euclidean length of a segment is exact in integers.  Grid.random *)
(* draws integer coordinates in the code as well (np.random.randint).      *)
(* Python lists are sequences; a 0-based index i of the code is i+1 here.  *)
(***************************************************************************)
EXTENDS Integers, Sequences, FiniteSets, TLC

\* ---------------------------------------------------------------- bounds
MaxPopulation == 2      \* populationCount ranges over 0..MaxPopulation
MaxEvolution == 2       \* evolutionMax ranges over 0..MaxEvolution
MaxCount == 2           \* evolve's count, when evolve is run on its own
ChanceScale == 2        \* chance and the uniform draw are multiples of 1/ChanceScale
MaxSortLen == 4         \* length of the lists handed to sort on its own
MaxSortScore == 2       \* scores of those lists range over 0..MaxSortScore
MaxInterpolation == 3   \* individual's interpolation ranges over 0..MaxInterpolation
MaxSegments == 4        \* individual's segments ranges over 0..MaxSegments

\* ------------------------------------------------ program constants (main)
\* The field and the sample count are scaled down from main's values
\* (20.0, 2.0, 18.0, 16) so that the reachable populations stay enumerable.
gridMinimum == 0
gridMaximum == 3
vehicleFirst == 1
vehicleFinal == 2
curveSamples == 2
CollisionPenalty == 1000
\* np.inf, the score of a Path that fitness has not been run on.
Inf == 2000000000

\* Grid.random(offset, size): randint(minimum+offset, maximum-offset-size+1),
\* whose upper end is exclusive.
GridRandom(offset, size) == (gridMinimum + offset)..(gridMaximum - offset - size)

\* evolve and individual call grid.random(size, Point(0, 0)) with size = objectSize = 1.
objectSize == 1
RandomPoints == GridRandom(objectSize, 0)

Min(a, b) == IF a <= b THEN a ELSE b
Max(a, b) == IF a >= b THEN a ELSE b

\* ------------------------------------------------------- Geometry (external)
\* Line(a, b).length: the Euclidean distance of the two points.
LineLength(a, b) == IF a <= b THEN b - a ELSE a - b

\* Line(a, b).intersects(obstacle): an obstacle placed at o covers the open
\* unit cell (o, o + objectSize); the segment meets it when it spans the cell.
LineIntersects(a, b, o) == Min(a, b) <= o /\ o + objectSize <= Max(a, b)

\* ------------------------------------------------------------------- Path
\* Path.__init__: score = np.inf.  fitnessCalls counts the calls of
\* Path.fitness on the object.
NewPath(points) == [score |-> Inf, points |-> points, fitnessCalls |-> 0]

RECURSIVE PathDistance(_, _)
PathDistance(points, i) ==
    IF i >= Len(points) THEN 0
    ELSE LineLength(points[i], points[i + 1]) + PathDistance(points, i + 1)

RECURSIVE PathCollisions(_, _, _)
PathCollisions(points, obs, i) ==
    IF i >= Len(points) THEN 0
    ELSE CollisionPenalty
           * Cardinality({k \in DOMAIN obs : LineIntersects(points[i], points[i + 1], obs[k])})
         + PathCollisions(points, obs, i + 1)

\* sqrt((distance / shortest) ** 2 + collisions ** 2).  The model keeps the
\* radicand scaled by shortest ** 2, i.e. (score * shortest) ** 2: an integer
\* that orders Paths exactly as score does (sort only compares scores).
ScoreOf(points, obs, shortest) ==
    PathDistance(points, 1) * PathDistance(points, 1)
    + (PathCollisions(points, obs, 1) * shortest) * (PathCollisions(points, obs, 1) * shortest)

\* Path.fitness(obstacles, shortest): the one place that writes score.
Fitness(path, obs, shortest) ==
    [path EXCEPT !.score = ScoreOf(path.points, obs, shortest),
                 !.fitnessCalls = @ + 1]

\* ------------------------------------------------------------- sort / merge
TakesLeftStrict(l, r) == l.score < r.score

\* merge's test: left[leftPosition].score <= right[rightPosition].score
TakesLeft(l, r) == l.score <= r.score

\* merge's while loop; lp and rp are leftPosition and rightPosition (0-based).
RECURSIVE MergeWhile(_, _, _, _, _)
MergeWhile(left, right, population, lp, rp) ==
    IF lp < Len(left) /\ rp < Len(right)
    THEN IF TakesLeft(left[lp + 1], right[rp + 1])
         THEN MergeWhile(left, right,
                         [population EXCEPT ![lp + rp + 1] = left[lp + 1]], lp + 1, rp)
         ELSE MergeWhile(left, right,
                         [population EXCEPT ![lp + rp + 1] = right[rp + 1]], lp, rp + 1)
    ELSE [population |-> population, leftPosition |-> lp, rightPosition |-> rp]

\* for leftPosition in range(leftPosition, len(left)): the loop variable keeps
\* the last value it took (len(left) - 1), or its old value when the range is empty.
RECURSIVE MergeLeftRest(_, _, _, _)
MergeLeftRest(left, population, i, rp) ==
    IF i < Len(left)
    THEN MergeLeftRest(left, [population EXCEPT ![i + rp + 1] = left[i + 1]], i + 1, rp)
    ELSE population

LeftPositionAfter(left, lp) == IF lp < Len(left) THEN Len(left) - 1 ELSE lp

\* for rightPosition in range(rightPosition, len(right))
RECURSIVE MergeRightRest(_, _, _, _)
MergeRightRest(right, population, lp, i) ==
    IF i < Len(right)
    THEN MergeRightRest(right, [population EXCEPT ![lp + i + 1] = right[i + 1]], lp, i + 1)
    ELSE population

Merge(left, right, population) ==
    LET w == MergeWhile(left, right, population, 0, 0)
        afterLeft == MergeLeftRest(left, w.population, w.leftPosition, w.rightPosition)
        lp == LeftPositionAfter(left, w.leftPosition)
    IN  MergeRightRest(right, afterLeft, lp, w.rightPosition)

RECURSIVE Sort(_)
Sort(population) ==
    IF Len(population) <= 1 THEN population
    ELSE LET mid == Len(population) \div 2
             left == Sort(SubSeq(population, 1, mid))
             right == Sort(SubSeq(population, mid + 1, Len(population)))
         IN  Merge(left, right, population)


\* ----------------------------------------------------------------- evolve
\* crossoverPosition = len(pathA) // 2; child = pathA[:crossoverPosition] + pathB[crossoverPosition:]
CrossoverShifted(pathA, pathB) ==
    SubSeq(pathA, 1, Len(pathA) \div 2)
        \o (IF Len(pathA) \div 2 + 1 < Len(pathB)
            THEN SubSeq(pathB, Len(pathA) \div 2 + 2, Len(pathB)) ELSE <<>>)

Crossover(pathA, pathB) ==
    SubSeq(pathA, 1, Len(pathA) \div 2)
        \o (IF Len(pathA) \div 2 < Len(pathB)
            THEN SubSeq(pathB, Len(pathA) \div 2 + 1, Len(pathB)) ELSE <<>>)

AnyParents(a, b) == TRUE

\* if parentA != parentB
DistinctParents(a, b) == a # b

\* if np.random.random() <= chance, with the draw u / ChanceScale in [0, 1)
\* and chance = c / ChanceScale in [0, 1].
MutationFires(u, c) == u <= c

\* The values np.random.random() takes in the model: 0, 1/ChanceScale, ...
UniformDraws == 0..(ChanceScale - 1)

\* ------------------------------------------------------------- individual
\* A point of the raw sequence is a rational coordinate <<numerator, denominator>>.
Pt(c) == <<c, 1>>
PtEq(p, q) == p[1] * q[2] = q[1] * p[2]

\* Line(p, q).divide(n): n interior points evenly spaced along the segment,
\* excluding both endpoints.
Divide(p, q, n) ==
    [k \in 1..n |-> <<p[1] * q[2] * (n + 1 - k) + q[1] * p[2] * k, p[2] * q[2] * (n + 1)>>]

\* ------------------------------------------------------------------ state
VARIABLES
    entry,              \* which function runs: "main", "evolve", "sort" or "individual"
    pc,                 \* the statement it is at
    populationCount, evolutionMax, mutationChance,   \* main's configuration
    obstacles,          \* the placements generateObstacles returned
    initialPopulation, gradedPopulation,
    evolutionCount, finalPopulation, optimalPath,
    exports,            \* how often lines 295-296 ran
    bestFitness,        \* the "Best Fitness Value" of every line main printed
    averageFitness,     \* the averages, each as <<sum of the scores, number of Paths>>
    count, children, parentA, parentB,               \* evolve's parameter and locals
    evolvedPaths,       \* what evolve returned, when evolve runs alone
    ranked, reranked,   \* sort(gradedPopulation) and sort of that, when sort runs alone
    interpolation, segments, points, s               \* individual's parameters and locals

vars == <<entry, pc, populationCount, evolutionMax, mutationChance, obstacles,
          initialPopulation, gradedPopulation, evolutionCount, finalPopulation,
          optimalPath, exports, bestFitness, averageFitness, count, children, parentA, parentB,
          evolvedPaths, ranked, reranked,
          interpolation, segments, points, s>>

mainVars == <<populationCount, evolutionMax, mutationChance, obstacles,
              initialPopulation, evolutionCount, finalPopulation, optimalPath,
              exports, bestFitness, averageFitness>>
evolveVars == <<count, children, parentA, parentB>>
sortVars == <<ranked, reranked>>
individualVars == <<interpolation, segments, points, s>>

None == "None"

\* shortestPath = Line(grid.first, grid.final); its length.
shortestLength == LineLength(vehicleFirst, vehicleFinal)

\* What bezierCurve(points, samples) can return: exactly `samples` points, the
\* first of them the first control point (t = 0), which individual sets to
\* grid.first; the others lie between the control points.
BezierCurves(samples) ==
    {c \in [1..samples -> RandomPoints] : samples >= 1 => c[1] = vehicleFirst}

\* What generateObstacles can return: obstacleCount placements drawn by
\* grid.random(Point(0, 0), size), none of them covering first or final.
obstacleCount == 1
PointIntersects(p, o) == o < p /\ p < o + objectSize
ObstaclePlacements ==
    {o \in GridRandom(0, objectSize) :
        ~PointIntersects(vehicleFirst, o) /\ ~PointIntersects(vehicleFinal, o)}

IdleEvolve == count = 0 /\ children = <<>> /\ parentA = None /\ parentB = None
IdleSort == ranked = None /\ reranked = None
IdleIndividual == interpolation = 0 /\ segments = 0 /\ points = <<>> /\ s = 0
IdleMain ==
    /\ populationCount = 0 /\ evolutionMax = 0 /\ obstacles = <<>>
    /\ initialPopulation = <<>> /\ evolutionCount = 0
    /\ finalPopulation = None /\ optimalPath = None /\ exports = 0
    /\ bestFitness = <<>> /\ averageFitness = <<>>

\* ------------------------------------------------------------------- main
\* main up to line 243: the configuration, the environment.
Init ==
    /\ entry = "main" /\ pc = "build"
    /\ populationCount \in 0..MaxPopulation
    /\ evolutionMax \in 0..MaxEvolution
    /\ mutationChance \in 0..ChanceScale
    /\ obstacles \in [1..obstacleCount -> ObstaclePlacements]
    /\ initialPopulation = <<>> /\ gradedPopulation = <<>>
    /\ evolutionCount = 0 /\ finalPopulation = None /\ optimalPath = None
    /\ exports = 0 /\ bestFitness = <<>> /\ averageFitness = <<>>
    /\ evolvedPaths = <<>>
    /\ IdleEvolve /\ IdleSort /\ IdleIndividual

\* lines 244-250: the initial population, every Path scored as it is made.
BuildInitial ==
    /\ entry = "main" /\ pc = "build"
    /\ \E curves \in [1..populationCount -> BezierCurves(curveSamples)] :
         initialPopulation' =
            [i \in 1..populationCount |->
                Fitness(NewPath(curves[i]), obstacles, shortestLength)]
    /\ pc' = "rank"
    /\ UNCHANGED <<entry, populationCount, evolutionMax, mutationChance, obstacles,
                   gradedPopulation, evolutionCount, finalPopulation, optimalPath,
                   exports, bestFitness, averageFitness, evolvedPaths>>
    /\ UNCHANGED <<evolveVars, sortVars, individualVars>>

\* line 252: gradedPopulation = sort(initialPopulation)
RankInitial ==
    /\ entry = "main" /\ pc = "rank"
    /\ gradedPopulation' = Sort(initialPopulation)
    /\ pc' = "loop"
    /\ UNCHANGED <<entry, mainVars, evolvedPaths, evolveVars, sortVars, individualVars>>

\* line 263, taken: evolve is called with count = populationCount (line 264);
\* line 129: children = [].
LoopEnter ==
    /\ entry = "main" /\ pc = "loop"
    /\ evolutionCount < evolutionMax
    /\ count' = populationCount
    /\ children' = <<>>
    /\ pc' = "evolve_while"
    /\ UNCHANGED <<entry, mainVars, gradedPopulation, evolvedPaths, parentA, parentB,
                   sortVars, individualVars>>

\* line 263, not taken: the loop is left.
LoopExit ==
    /\ entry = "main" /\ pc = "loop"
    /\ ~(evolutionCount < evolutionMax)
    /\ pc' = "done"
    /\ UNCHANGED <<entry, mainVars, gradedPopulation, evolvedPaths, evolveVars,
                   sortVars, individualVars>>


\* ----------------------------------------------------------------- evolve
\* evolve(population, grid, size, count, chance) runs on gradedPopulation with
\* chance = mutationChance, both in main (line 264) and on its own.

\* lines 130-132: one more child is wanted; the two parent indices are drawn.
EvolveDrawPair(a, b) ==
    /\ pc = "evolve_while"
    /\ Len(children) < count
    /\ Len(gradedPopulation) > 0
    /\ parentA' = a /\ parentB' = b
    /\ pc' = "evolve_if"
    /\ UNCHANGED <<entry, mainVars, gradedPopulation, evolvedPaths, count, children,
                   sortVars, individualVars>>

EvolveDraw ==
    \E a, b \in 0..(Len(gradedPopulation) - 1) : EvolveDrawPair(a, b)

EvolveDrawDistinct ==
    \E a, b \in 0..(Len(gradedPopulation) - 1) : a # b /\ EvolveDrawPair(a, b)

\* line 131 on an empty population: np.random.randint(0, 0) raises ValueError.
EvolveDrawEmpty ==
    /\ pc = "evolve_while"
    /\ Len(children) < count
    /\ Len(gradedPopulation) = 0
    /\ pc' = "ValueError"
    /\ UNCHANGED <<entry, mainVars, gradedPopulation, evolvedPaths, evolveVars,
                   sortVars, individualVars>>

\* line 133, not taken: the same index came twice, the loop draws again.
EvolveSame ==
    /\ pc = "evolve_if"
    /\ ~DistinctParents(parentA, parentB)
    /\ pc' = "evolve_while"
    /\ UNCHANGED <<entry, mainVars, gradedPopulation, evolvedPaths, evolveVars,
                   sortVars, individualVars>>

\* lines 133-141, the uniform draw above chance: the child is appended as crossed.
EvolveChild ==
    /\ pc = "evolve_if"
    /\ DistinctParents(parentA, parentB)
    /\ \E u \in UniformDraws :
         /\ ~MutationFires(u, mutationChance)
         /\ children' = Append(children,
                Crossover(gradedPopulation[parentA + 1].points,
                          gradedPopulation[parentB + 1].points))
    /\ pc' = "evolve_while"
    /\ UNCHANGED <<entry, mainVars, gradedPopulation, evolvedPaths, count, parentA, parentB,
                   sortVars, individualVars>>

\* lines 133-141, the uniform draw at most chance: one point of the child is
\* replaced by grid.random(size, Point(0, 0)).  Every Path here has at least
\* one point, so the child has one too and randint(0, len(child)) is defined.
EvolveMutatedChild ==
    /\ pc = "evolve_if"
    /\ DistinctParents(parentA, parentB)
    /\ \E u \in UniformDraws :
         /\ MutationFires(u, mutationChance)
         /\ LET child == Crossover(gradedPopulation[parentA + 1].points,
                                   gradedPopulation[parentB + 1].points)
            IN  /\ Len(child) > 0
                /\ \E mutationPosition \in 0..(Len(child) - 1), p \in RandomPoints :
                     children' = Append(children,
                                        [child EXCEPT ![mutationPosition + 1] = p])
    /\ pc' = "evolve_while"
    /\ UNCHANGED <<entry, mainVars, gradedPopulation, evolvedPaths, count, parentA, parentB,
                   sortVars, individualVars>>

\* lines 130 and 142, evolve run alone: count children are there and returned.
EvolveReturn ==
    /\ entry = "evolve" /\ pc = "evolve_while"
    /\ ~(Len(children) < count)
    /\ evolvedPaths' = children
    /\ pc' = "done"
    /\ UNCHANGED <<entry, mainVars, gradedPopulation, evolveVars, sortVars, individualVars>>

\* ------------------------------------------------------- main's loop body
WrapAll(paths, obs, shortest) == [i \in 1..Len(paths) |-> NewPath(paths[i])]

\* lines 266-271: every offspring becomes a Path and is scored.
ScoreAll(paths, obs, shortest) ==
    [i \in 1..Len(paths) |-> Fitness(NewPath(paths[i]), obs, shortest)]

\* lines 130 and 142, then 264-273 of main: evolve returns its children (its
\* frame, with count, children, parentA and parentB, is gone), every child is
\* scored, and gradedPopulation.extend(evolvedPopulation).  evolvedPaths and
\* evolvedPopulation are bound and used up inside this step.  sort returns its
\* argument itself when it holds at most one Path (line 96), so for
\* populationCount <= 1 gradedPopulation is the list initialPopulation, which
\* extend grows too (of these only populationCount = 0 gets here, with no
\* offspring to append).
ScoreAndExtend ==
    /\ entry = "main" /\ pc = "evolve_while"
    /\ ~(Len(children) < count)
    /\ LET evolvedPopulation == ScoreAll(children, obstacles, shortestLength)
       IN  /\ gradedPopulation' = gradedPopulation \o evolvedPopulation
           /\ initialPopulation' = IF populationCount <= 1
                                   THEN initialPopulation \o evolvedPopulation
                                   ELSE initialPopulation
    /\ count' = 0 /\ children' = <<>> /\ parentA' = None /\ parentB' = None
    /\ pc' = "sort"
    /\ UNCHANGED <<entry, populationCount, evolutionMax, mutationChance, obstacles,
                   evolutionCount, finalPopulation, optimalPath, exports, bestFitness,
                   averageFitness, evolvedPaths>>
    /\ UNCHANGED <<sortVars, individualVars>>

\* line 274: gradedPopulation = sort(gradedPopulation)
Rank ==
    /\ entry = "main" /\ pc = "sort"
    /\ gradedPopulation' = Sort(gradedPopulation)
    /\ pc' = "truncate"
    /\ UNCHANGED <<entry, mainVars, evolvedPaths, evolveVars, sortVars, individualVars>>

KeepAll(population, n) == population

TruncateTail(population, n) ==
    IF Len(population) > n
    THEN SubSeq(population, Len(population) - n + 1, Len(population))
    ELSE population

\* lines 276-277: if len(gradedPopulation) > populationCount: cut to [:populationCount]
TruncateTo(population, n) ==
    IF Len(population) > n THEN SubSeq(population, 1, n) ELSE population

Truncate ==
    /\ entry = "main" /\ pc = "truncate"
    /\ gradedPopulation' = TruncateTo(gradedPopulation, populationCount)
    /\ pc' = "report"
    /\ UNCHANGED <<entry, mainVars, evolvedPaths, evolveVars, sortVars, individualVars>>

\* lines 279-292: the average and its append to averageFitness, the printed
\* line, evolutionCount += 1.  Of the line the model keeps the best fitness
\* value, gradedPopulation[0].score.
RECURSIVE SumScores(_, _)
SumScores(population, i) ==
    IF i > Len(population) THEN 0 ELSE population[i].score + SumScores(population, i + 1)

Report ==
    /\ entry = "main" /\ pc = "report"
    /\ Len(gradedPopulation) > 0
    /\ averageFitness' = Append(averageFitness,
                                <<SumScores(gradedPopulation, 1), Len(gradedPopulation)>>)
    /\ bestFitness' = Append(bestFitness, gradedPopulation[1].score)
    /\ evolutionCount' = evolutionCount + 1
    /\ pc' = "export"
    /\ UNCHANGED <<entry, populationCount, evolutionMax, mutationChance, obstacles,
                   initialPopulation, gradedPopulation, finalPopulation, optimalPath,
                   exports, evolvedPaths>>
    /\ UNCHANGED <<evolveVars, sortVars, individualVars>>

\* line 282 on an empty population: average /= 0 raises ZeroDivisionError.
ReportEmpty ==
    /\ entry = "main" /\ pc = "report"
    /\ Len(gradedPopulation) = 0
    /\ pc' = "ZeroDivisionError"
    /\ UNCHANGED <<entry, mainVars, gradedPopulation, evolvedPaths, evolveVars,
                   sortVars, individualVars>>

\* lines 294-296, taken: the last generation's population and its first Path.
Export ==
    /\ entry = "main" /\ pc = "export"
    /\ evolutionCount = evolutionMax
    /\ finalPopulation' = gradedPopulation
    /\ optimalPath' = gradedPopulation[1]
    /\ exports' = exports + 1
    /\ pc' = "loop"
    /\ UNCHANGED <<entry, populationCount, evolutionMax, mutationChance, obstacles,
                   initialPopulation, gradedPopulation, evolutionCount, bestFitness,
                   averageFitness, evolvedPaths>>
    /\ UNCHANGED <<evolveVars, sortVars, individualVars>>

\* line 294, not taken.
NoExport ==
    /\ entry = "main" /\ pc = "export"
    /\ evolutionCount # evolutionMax
    /\ pc' = "loop"
    /\ UNCHANGED <<entry, mainVars, gradedPopulation, evolvedPaths, evolveVars,
                   sortVars, individualVars>>

Next ==
    \/ BuildInitial
    \/ RankInitial
    \/ LoopEnter
    \/ LoopExit
    \/ EvolveDraw
    \/ EvolveSame
    \/ EvolveChild
    \/ EvolveMutatedChild
    \/ ScoreAndExtend
    \/ Rank
    \/ Truncate
    \/ Report
    \/ ReportEmpty
    \/ Export
    \/ NoExport

Spec == Init /\ [][Next]_vars

\* The parent indices are independent uniform draws: a pair of distinct
\* indices, possible at every draw, is not missed for ever.  Every other
\* statement simply runs.
FairSpec == Spec /\ WF_vars(Next) /\ SF_vars(EvolveDrawDistinct)


\* ------------------------------------------------------- evolve on its own
\* The Paths evolve is tried on: point sequences of every length from 1 to
\* curveSamples, so that parents of different lengths meet.
EvolveInputs == UNION {[1..n -> RandomPoints] : n \in 1..curveSamples}

EvolveInit ==
    /\ entry = "evolve" /\ pc = "evolve_while"
    /\ \E n \in 0..MaxPopulation : \E inputs \in [1..n -> EvolveInputs] :
         gradedPopulation = ScoreAll(inputs, <<>>, shortestLength)
    /\ count \in 0..MaxCount
    /\ mutationChance \in 0..ChanceScale
    /\ children = <<>> /\ parentA = None /\ parentB = None
    /\ evolvedPaths = <<>>
    /\ IdleMain /\ IdleSort /\ IdleIndividual

EvolveNext ==
    \/ EvolveDraw
    \/ EvolveDrawEmpty
    \/ EvolveSame
    \/ EvolveChild
    \/ EvolveMutatedChild
    \/ EvolveReturn

\* Fairness as in FairSpec: a pair of distinct indices is drawn in the end.
EvolveSpec ==
    EvolveInit /\ [][EvolveNext]_vars /\ WF_vars(EvolveNext) /\ SF_vars(EvolveDrawDistinct)

\* --------------------------------------------------------- sort on its own
SortInputs ==
    {[score |-> v, points |-> <<p>>, fitnessCalls |-> 1] :
        v \in 0..MaxSortScore, p \in RandomPoints}

SortInit ==
    /\ entry = "sort" /\ pc = "sort_call"
    /\ \E n \in 0..MaxSortLen : gradedPopulation \in [1..n -> SortInputs]
    /\ ranked = None /\ reranked = None
    /\ mutationChance = 0 /\ evolvedPaths = <<>>
    /\ IdleMain /\ IdleEvolve /\ IdleIndividual

\* ranked = sort(population)
SortOnce ==
    /\ entry = "sort" /\ pc = "sort_call"
    /\ ranked' = Sort(gradedPopulation)
    /\ pc' = "sort_again"
    /\ UNCHANGED <<entry, mainVars, gradedPopulation, evolvedPaths, evolveVars, reranked,
                   individualVars>>

\* reranked = sort(ranked)
SortTwice ==
    /\ entry = "sort" /\ pc = "sort_again"
    /\ reranked' = Sort(ranked)
    /\ pc' = "done"
    /\ UNCHANGED <<entry, mainVars, gradedPopulation, evolvedPaths, evolveVars, ranked,
                   individualVars>>

SortNext ==
    \/ SortOnce
    \/ SortTwice

SortSpec == SortInit /\ [][SortNext]_vars

\* --------------------------------------------------- individual on its own
\* line 66: points = [grid.first]
IndividualInit ==
    /\ entry = "individual" /\ pc = "individual_for"
    /\ interpolation \in 0..MaxInterpolation
    /\ segments \in 0..MaxSegments
    /\ points = <<Pt(vehicleFirst)>>
    /\ s = 0
    /\ gradedPopulation = <<>> /\ mutationChance = 0 /\ evolvedPaths = <<>>
    /\ IdleMain /\ IdleEvolve /\ IdleSort

\* lines 68-71 for s < segments - 1: the next anchor is grid.random(size, Point(0, 0)).
IndividualHop ==
    /\ entry = "individual" /\ pc = "individual_for"
    /\ s < segments /\ s < segments - 1
    /\ \E nextPoint \in RandomPoints :
         points' = points \o Divide(points[Len(points)], Pt(nextPoint), interpolation)
    /\ s' = s + 1
    /\ UNCHANGED <<entry, pc, mainVars, gradedPopulation, evolvedPaths, evolveVars,
                   sortVars, interpolation, segments>>

\* lines 68-71 for the last segment: the next anchor is grid.final.
IndividualLastHop ==
    /\ entry = "individual" /\ pc = "individual_for"
    /\ s < segments /\ ~(s < segments - 1)
    /\ points' = points \o Divide(points[Len(points)], Pt(vehicleFinal), interpolation)
    /\ s' = s + 1
    /\ UNCHANGED <<entry, pc, mainVars, gradedPopulation, evolvedPaths, evolveVars,
                   sortVars, interpolation, segments>>

\* line 73: return points
IndividualReturn ==
    /\ entry = "individual" /\ pc = "individual_for"
    /\ ~(s < segments)
    /\ pc' = "done"
    /\ UNCHANGED <<entry, mainVars, gradedPopulation, evolvedPaths, evolveVars,
                   sortVars, individualVars>>

IndividualNext ==
    \/ IndividualHop
    \/ IndividualLastHop
    \/ IndividualReturn

IndividualSpec == IndividualInit /\ [][IndividualNext]_vars


\* ================================================================= claims

NonDecreasing(population) ==
    \A i, j \in DOMAIN population : i < j => population[i].score <= population[j].score

Occurrences(population, path) == Cardinality({i \in DOMAIN population : population[i] = path})

IsPermutation(a, b) ==
    /\ Len(a) = Len(b)
    /\ \A i \in DOMAIN a : Occurrences(a, a[i]) = Occurrences(b, a[i])

\* The Paths of one score, in the order they stand in the list.
WithScore(population, v) == SelectSeq(population, LAMBDA path : path.score = v)

KeepsTieOrder(before, after) ==
    \A i \in DOMAIN before :
        WithScore(after, before[i].score) = WithScore(before, before[i].score)

\* C1: sort(P) is a permutation of P with non-decreasing scores in which Paths
\* of equal score keep the order they had in P, and sort(sort(P)) = sort(P).
C1_SortStableAscending ==
    /\ (entry = "sort" /\ pc \in {"sort_again", "done"}) =>
          /\ IsPermutation(gradedPopulation, ranked)
          /\ NonDecreasing(ranked)
          /\ KeepsTieOrder(gradedPopulation, ranked)
    /\ (entry = "sort" /\ pc = "done") => reranked = ranked

\* A list of at least three Paths, out of order, with two different Paths of
\* one score, has been sorted twice.
C1_Witness ==
    /\ entry = "sort" /\ pc = "done"
    /\ Len(gradedPopulation) >= 3
    /\ ~NonDecreasing(gradedPopulation)
    /\ \E i, j \in DOMAIN gradedPopulation :
         /\ i < j
         /\ gradedPopulation[i].score = gradedPopulation[j].score
         /\ gradedPopulation[i] # gradedPopulation[j]

\* C2: the best fitness value printed for a generation is at most the one
\* printed for the generation before, and never above the best score of the
\* ranked initial population.
C2_BestNeverWorse ==
    entry = "main" =>
        \A g \in DOMAIN bestFitness :
            /\ g > 1 => bestFitness[g] <= bestFitness[g - 1]
            /\ bestFitness[g] <= Sort(initialPopulation)[1].score

\* Two generations were reported and the second improved on the first.
C2_Witness ==
    /\ entry = "main"
    /\ Len(bestFitness) >= 2
    /\ bestFitness[2] < bestFitness[1]

\* C3: once an iteration has truncated, and until the next extend,
\* gradedPopulation holds at most populationCount Paths; it is longer only
\* between the extend and the truncation.
C3_PopulationCapped ==
    (entry = "main" /\ pc \notin {"sort", "truncate"}) =>
        Len(gradedPopulation) <= populationCount

\* A generation of at least two Paths has been extended, sorted and cut.
C3_Witness ==
    /\ entry = "main" /\ pc = "report"
    /\ populationCount >= 2
    /\ Len(gradedPopulation) = populationCount

\* C4: for every configuration the loop ends after exactly evolutionMax
\* iterations.
C4_LoopEnds == <>(entry = "main" /\ pc = "done" /\ evolutionCount = evolutionMax)

\* What does hold of C4: when the loop is left, evolutionCount is
\* evolutionMax, and if there was an iteration at all, lines 295-296 ran
\* once, in the last one.
ExportedOnceAtTheEnd ==
    (entry = "main" /\ pc = "done") =>
        /\ evolutionCount = evolutionMax
        /\ Len(averageFitness) = evolutionMax
        /\ exports = (IF evolutionMax >= 1 THEN 1 ELSE 0)
        /\ evolutionMax >= 1 =>
              finalPopulation = gradedPopulation /\ optimalPath = gradedPopulation[1]

\* C5: with a population of fewer than two Paths evolution does not loop
\* for ever: the run gets out of evolve's loop and stays out.
C5_SmallPopulationNeverSpins ==
    (entry = "main" /\ populationCount < 2) =>
        <>[](pc \notin {"evolve_while", "evolve_if"})

\* child is made of base by replacing at most one point.
MutationOf(child, base) ==
    /\ Len(child) = Len(base)
    /\ Cardinality({i \in DOMAIN base : child[i] # base[i]}) <= 1

\* C6: on a population of at least two Paths evolve returns in the end, with
\* exactly count children, each the crossover of the Paths at two distinct
\* indices with at most one point mutated.
C6_EvolveReturnsCount ==
    /\ (entry = "evolve" /\ Len(gradedPopulation) >= 2) =>
          <>(pc = "done" /\ Len(evolvedPaths) = count)
    /\ [][(entry = "evolve" /\ children' # children) =>
             /\ parentA # parentB
             /\ Len(children') = Len(children) + 1
             /\ MutationOf(children'[Len(children')],
                           Crossover(gradedPopulation[parentA + 1].points,
                                     gradedPopulation[parentB + 1].points))]_vars

\* evolve returned two or more children of a population of two or more.
C6_Witness ==
    /\ entry = "evolve" /\ pc = "done"
    /\ Len(gradedPopulation) >= 2
    /\ count >= 2
    /\ Len(evolvedPaths) = count

\* C7: with a divide that leaves out both endpoints, individual returns
\* 1 + segments * (interpolation + 1) points, from grid.first to grid.final.
C7_IndividualLength ==
    (entry = "individual" /\ pc = "done" /\ segments >= 1) =>
        /\ Len(points) = 1 + segments * (interpolation + 1)
        /\ PtEq(points[1], Pt(vehicleFirst))
        /\ PtEq(points[Len(points)], Pt(vehicleFinal))

Scored(population) ==
    \A i \in DOMAIN population :
        population[i].fitnessCalls = 1 /\ population[i].score < Inf

\* C8: fitness has run exactly once on every Path of a population, before
\* the population is sorted and ever after.
C8_ScoredOnce ==
    entry = "main" => Scored(initialPopulation) /\ Scored(gradedPopulation)

\* The offspring of a second generation stand with the survivors of the
\* first, about to be sorted.
C8_Witness ==
    /\ entry = "main" /\ pc = "sort"
    /\ evolutionCount >= 1
    /\ populationCount >= 2
    /\ Len(gradedPopulation) = 2 * populationCount

\* C9: with chance 0 every child is the plain crossover of two Paths at
\* distinct indices.
C9_NoMutationAtZero ==
    (entry = "evolve" /\ mutationChance = 0) =>
        \A k \in DOMAIN children :
            \E a, b \in DOMAIN gradedPopulation :
                /\ a # b
                /\ children[k] = Crossover(gradedPopulation[a].points,
                                           gradedPopulation[b].points)

\* C10: every Path of gradedPopulation has exactly curveSamples points.
C10_SampleCountKept ==
    entry = "main" =>
        \A i \in DOMAIN gradedPopulation : Len(gradedPopulation[i].points) = curveSamples

\* A mutated child, with a point no initial Path has at that place, survived
\* a truncation.
C10_Witness ==
    /\ entry = "main" /\ pc = "report"
    /\ evolutionCount >= 1
    /\ \E i \in DOMAIN gradedPopulation :
         gradedPopulation[i].points[1] # vehicleFirst

====
